---------------------------- MODULE Spec2Model ----------------------------
(***************************************************************************)
(* F1ScoreBreakpoints (sktime/performance_metrics/detection/_f1score.py):  *)
(* a margin-based F1 score for breakpoint detection.                       *)
(*                                                                         *)
(* A scorer object holds self.margin.  Each call of _evaluate runs in its  *)
(* own frame with the locals gt, pred, matched_count, pred_index, the      *)
(* position of the for-loop over gt, precision and recall.  The variables  *)
(* below are functions from frames to the value of that local, so that one *)
(* frame models sequential calls on a scorer and two frames model calls    *)
(* interleaved on the same scorer.                                         *)
(*                                                                         *)
(* Positions and the margin are integers counted in tenths, so that the    *)
(* default margin 1.0 is DefaultMargin = 10 and the documented scenario    *)
(* 4.9, 5, 5.9 is 49, 50, 59.  Quotients are exact rationals               *)
(* <<numerator, denominator>> in lowest terms.                             *)
(***************************************************************************)
EXTENDS Integers, Sequences, FiniteSets, TLC

VARIABLES margin,         \* self.margin
          pc,             \* position of each frame in _evaluate
          y_true,         \* the caller's y_true["ilocs"].values
          y_pred,         \* the caller's y_pred["ilocs"].values
          gt,             \* local gt
          pred,           \* local pred
          matched_count,  \* local matched_count
          pred_index,     \* local pred_index
          gt_iter,        \* number of elements of gt the for-loop has taken
          precision,      \* local precision
          recall,         \* local recall
          ret,            \* the value returned to the caller
          executed        \* which of the sweep and the divisions the call ran

vars == <<margin, pc, y_true, y_pred, gt, pred, matched_count, pred_index,
          gt_iter, precision, recall, ret, executed>>

(***************************************************************************)
(* Bounds                                                                  *)
(***************************************************************************)
MaxLen == 2          \* longest input sequence of a sequential call
MaxPos == 2          \* positions of a sequential call are 0..MaxPos
MaxMargin == 2       \* margins are 0..MaxMargin and the default
MaxScale == 2        \* scaling constants are 1..MaxScale
ConcMaxLen == 1      \* longest input sequence of an interleaved call

DefaultMargin == 10  \* margin=1.0, counted in tenths as the positions are

(***************************************************************************)
(* Exact rational arithmetic for the float quotients                       *)
(***************************************************************************)
Abs(x) == IF x < 0 THEN -x ELSE x

RECURSIVE GCD(_, _)
GCD(a, b) == IF b = 0 THEN a ELSE GCD(b, a % b)

\* n/d in lowest terms, d > 0
Quot(n, d) == LET g == GCD(Abs(n), d) IN <<n \div g, d \div g>>

Zero == <<0, 1>>     \* 0.0
One == <<1, 1>>      \* 1.0
None == <<0, 0>>     \* no value

RAdd(a, b) == Quot(a[1] * b[2] + b[1] * a[2], a[2] * b[2])
RMul(a, b) == Quot(a[1] * b[1], a[2] * b[2])
RDiv(a, b) == Quot(a[1] * b[2], a[2] * b[1])
RLeq(a, b) == a[1] * b[2] <= b[1] * a[2]

(***************************************************************************)
(* sorted(...): a new ascending list, the argument is left alone           *)
(***************************************************************************)
RECURSIVE Insert(_, _)
Insert(x, s) ==
    IF s = <<>> THEN <<x>>
    ELSE IF x <= Head(s) THEN <<x>> \o s
    ELSE <<Head(s)>> \o Insert(x, Tail(s))

RECURSIVE InsertionSort(_)
InsertionSort(s) == IF s = <<>> THEN <<>> ELSE Insert(Head(s), InsertionSort(Tail(s)))

\* the list as it came, not sorted
unsorted(s) == s

sorted(s) == InsertionSort(s)

(***************************************************************************)
(* The conditions and expressions of _evaluate                             *)
(***************************************************************************)
\* 'or' in place of 'and' in the first edge case
EitherEmpty(g, p) == Len(g) = 0 \/ Len(p) = 0

BothEmpty(g, p) == Len(g) = 0 /\ Len(p) = 0

\* the margin left out of the advance rule
Behind(p, t, m) == p < t

\* pred[pred_index] < true_bkpt - self.margin
TooFarBehind(p, t, m) == p < t - m

\* '<=' in place of '<': a prediction exactly at the margin counts
WithinMarginInclusive(p, t, m) == Abs(p - t) <= m

\* the default margin in place of self.margin
WithinDefaultMargin(p, t, m) == Abs(p - t) < DefaultMargin

\* abs(pred[pred_index] - true_bkpt) < self.margin
WithinMargin(p, t, m) == Abs(p - t) < m

\* the while condition; pred_index counts from 0
WhileCond(p, i, t, m) == i < Len(p) /\ TooFarBehind(p[i + 1], t, m)

\* the if condition
IfCond(p, i, t, m) == i < Len(p) /\ WithinMargin(p[i + 1], t, m)

\* the cursor advanced after a match (the 'optional' line of the source)
IndexAdvancedAfterMatch(i) == i + 1

\* pred_index after a match: the cursor is not advanced
IndexAfterMatch(i) == i

Precision(mc, p) == Quot(mc, Len(p))
Recall(mc, g) == Quot(mc, Len(g))

\* the factor 2 left out
F1FormulaNoFactor(pr, rc) == RDiv(RMul(pr, rc), RAdd(pr, rc))

\* 2 * precision * recall / (precision + recall)
F1Formula(pr, rc) == RDiv(RMul(<<2, 1>>, RMul(pr, rc)), RAdd(pr, rc))

F1(pr, rc) == IF RAdd(pr, rc) = Zero THEN Zero ELSE F1Formula(pr, rc)

(***************************************************************************)
(* _evaluate as a function of (y_true, y_pred, margin)                     *)
(***************************************************************************)
RECURSIVE AdvanceCursor(_, _, _, _)
AdvanceCursor(p, i, t, m) ==
    IF WhileCond(p, i, t, m) THEN AdvanceCursor(p, i + 1, t, m) ELSE i

\* the for-loop from the k-th element of g on; yields <<matched_count, pred_index>>
RECURSIVE Sweep(_, _, _, _, _, _)
Sweep(g, p, k, i, mc, m) ==
    IF k > Len(g) THEN <<mc, i>>
    ELSE LET j == AdvanceCursor(p, i, g[k], m)
         IN  IF IfCond(p, j, g[k], m)
             THEN Sweep(g, p, k + 1, IndexAfterMatch(j), mc + 1, m)
             ELSE Sweep(g, p, k + 1, j, mc, m)

MatchedCount(yt, yp, m) == Sweep(sorted(yt), sorted(yp), 1, 0, 0, m)[1]

Evaluate(yt, yp, m) ==
    LET g == sorted(yt)
        p == sorted(yp)
    IN  IF BothEmpty(g, p) THEN One
        ELSE IF Len(g) = 0 THEN Zero
        ELSE IF Len(p) = 0 THEN Zero
        ELSE LET mc == Sweep(g, p, 1, 0, 0, m)[1]
             IN  F1(Precision(mc, p), Recall(mc, g))

(***************************************************************************)
(* Inputs                                                                  *)
(***************************************************************************)
SeqsUpTo(n, S) == UNION {[1..k -> S] : k \in 0..n}

\* the documented scenarios, in tenths
Scenarios ==
    { <<<<>>, <<>>>>,
      <<<<50>>, <<>>>>,
      <<<<50>>, <<50>>>>,
      <<<<50>>, <<100>>>>,
      <<<<50, 100>>, <<55, 105>>>>,
      <<<<50>>, <<49, 59>>>> }

SeqInputs == (SeqsUpTo(MaxLen, 0..MaxPos) \X SeqsUpTo(MaxLen, 0..MaxPos)) \cup Scenarios

\* an interleaved call on arrays that are not in ascending order
ConcScenarios == { <<<<1, 0>>, <<1, 0>>>> }

\* two frames square the state space: interleaved calls take two positions
ConcPositions == {0, 1}

ConcInputs ==
    (SeqsUpTo(ConcMaxLen, ConcPositions) \X SeqsUpTo(ConcMaxLen, ConcPositions))
        \cup ConcScenarios

Margins == (0..MaxMargin) \cup {DefaultMargin}
ConcMargins == {0, 1}

Frames == DOMAIN pc
Inputs == IF Cardinality(Frames) = 1 THEN SeqInputs ELSE ConcInputs

(***************************************************************************)
(* Construction: __init__(margin)                                          *)
(***************************************************************************)
InitFrames(F, M) ==
    /\ margin \in M
    /\ pc = [f \in F |-> "idle"]
    /\ y_true = [f \in F |-> <<>>]
    /\ y_pred = [f \in F |-> <<>>]
    /\ gt = [f \in F |-> <<>>]
    /\ pred = [f \in F |-> <<>>]
    /\ matched_count = [f \in F |-> 0]
    /\ pred_index = [f \in F |-> 0]
    /\ gt_iter = [f \in F |-> 0]
    /\ precision = [f \in F |-> None]
    /\ recall = [f \in F |-> None]
    /\ ret = [f \in F |-> None]
    /\ executed = [f \in F |-> {}]

Init == InitFrames({1}, Margins)
InitConc == InitFrames({1, 2}, ConcMargins)

(***************************************************************************)
(* _evaluate, one step at a time                                           *)
(***************************************************************************)
\* the current element of the for-loop
true_bkpt(f) == gt[f][gt_iter[f]]

\* the call binds its arguments
Call(f) ==
    /\ pc[f] = "idle"
    /\ \E in \in Inputs :
          /\ y_true' = [y_true EXCEPT ![f] = in[1]]
          /\ y_pred' = [y_pred EXCEPT ![f] = in[2]]
    /\ pc' = [pc EXCEPT ![f] = "sort"]
    /\ UNCHANGED <<margin, gt, pred, matched_count, pred_index, gt_iter,
                   precision, recall, ret, executed>>

\* a sort in place: the caller's arrays are reordered as well
SortInPlace(f) ==
    /\ pc[f] = "sort"
    /\ y_true' = [y_true EXCEPT ![f] = sorted(@)]
    /\ y_pred' = [y_pred EXCEPT ![f] = sorted(@)]
    /\ gt' = [gt EXCEPT ![f] = sorted(y_true[f])]
    /\ pred' = [pred EXCEPT ![f] = sorted(y_pred[f])]
    /\ pc' = [pc EXCEPT ![f] = "edge"]
    /\ UNCHANGED <<margin, matched_count, pred_index, gt_iter, precision,
                   recall, ret, executed>>

\* gt and pred are new sorted lists
Sort(f) ==
    /\ pc[f] = "sort"
    /\ gt' = [gt EXCEPT ![f] = sorted(y_true[f])]
    /\ pred' = [pred EXCEPT ![f] = sorted(y_pred[f])]
    /\ pc' = [pc EXCEPT ![f] = "edge"]
    /\ UNCHANGED <<margin, y_true, y_pred, matched_count, pred_index, gt_iter,
                   precision, recall, ret, executed>>

ReturnValue(f, v) ==
    /\ ret' = [ret EXCEPT ![f] = v]
    /\ pc' = [pc EXCEPT ![f] = "done"]

EdgeBothEmpty(f) ==
    /\ pc[f] = "edge"
    /\ BothEmpty(gt[f], pred[f])
    /\ ReturnValue(f, One)
    /\ UNCHANGED <<margin, y_true, y_pred, gt, pred, matched_count, pred_index,
                   gt_iter, precision, recall, executed>>

EdgeGtEmpty(f) ==
    /\ pc[f] = "edge"
    /\ ~BothEmpty(gt[f], pred[f])
    /\ Len(gt[f]) = 0
    /\ ReturnValue(f, Zero)
    /\ UNCHANGED <<margin, y_true, y_pred, gt, pred, matched_count, pred_index,
                   gt_iter, precision, recall, executed>>

EdgePredEmpty(f) ==
    /\ pc[f] = "edge"
    /\ ~BothEmpty(gt[f], pred[f])
    /\ Len(gt[f]) # 0
    /\ Len(pred[f]) = 0
    /\ ReturnValue(f, Zero)
    /\ UNCHANGED <<margin, y_true, y_pred, gt, pred, matched_count, pred_index,
                   gt_iter, precision, recall, executed>>

InitSweep(f) ==
    /\ pc[f] = "edge"
    /\ Len(gt[f]) # 0
    /\ Len(pred[f]) # 0
    /\ matched_count' = [matched_count EXCEPT ![f] = 0]
    /\ pred_index' = [pred_index EXCEPT ![f] = 0]
    /\ gt_iter' = [gt_iter EXCEPT ![f] = 0]
    /\ pc' = [pc EXCEPT ![f] = "for"]
    /\ UNCHANGED <<margin, y_true, y_pred, gt, pred, precision, recall, ret,
                   executed>>

ForNext(f) ==
    /\ pc[f] = "for"
    /\ gt_iter[f] < Len(gt[f])
    /\ gt_iter' = [gt_iter EXCEPT ![f] = @ + 1]
    /\ executed' = [executed EXCEPT ![f] = @ \cup {"sweep"}]
    /\ pc' = [pc EXCEPT ![f] = "while"]
    /\ UNCHANGED <<margin, y_true, y_pred, gt, pred, matched_count, pred_index,
                   precision, recall, ret>>

ForExit(f) ==
    /\ pc[f] = "for"
    /\ gt_iter[f] = Len(gt[f])
    /\ pc' = [pc EXCEPT ![f] = "prf"]
    /\ UNCHANGED <<margin, y_true, y_pred, gt, pred, matched_count, pred_index,
                   gt_iter, precision, recall, ret, executed>>

WhileAdvance(f) ==
    /\ pc[f] = "while"
    /\ WhileCond(pred[f], pred_index[f], true_bkpt(f), margin)
    /\ pred_index' = [pred_index EXCEPT ![f] = @ + 1]
    /\ UNCHANGED <<margin, pc, y_true, y_pred, gt, pred, matched_count, gt_iter,
                   precision, recall, ret, executed>>

WhileExit(f) ==
    /\ pc[f] = "while"
    /\ ~WhileCond(pred[f], pred_index[f], true_bkpt(f), margin)
    /\ pc' = [pc EXCEPT ![f] = "if"]
    /\ UNCHANGED <<margin, y_true, y_pred, gt, pred, matched_count, pred_index,
                   gt_iter, precision, recall, ret, executed>>

IfMatch(f) ==
    /\ pc[f] = "if"
    /\ IfCond(pred[f], pred_index[f], true_bkpt(f), margin)
    /\ matched_count' = [matched_count EXCEPT ![f] = @ + 1]
    /\ pred_index' = [pred_index EXCEPT ![f] = IndexAfterMatch(@)]
    /\ pc' = [pc EXCEPT ![f] = "for"]
    /\ UNCHANGED <<margin, y_true, y_pred, gt, pred, gt_iter, precision, recall,
                   ret, executed>>

IfNoMatch(f) ==
    /\ pc[f] = "if"
    /\ ~IfCond(pred[f], pred_index[f], true_bkpt(f), margin)
    /\ pc' = [pc EXCEPT ![f] = "for"]
    /\ UNCHANGED <<margin, y_true, y_pred, gt, pred, matched_count, pred_index,
                   gt_iter, precision, recall, ret, executed>>

ComputePR(f) ==
    /\ pc[f] = "prf"
    /\ precision' = [precision EXCEPT ![f] = Precision(matched_count[f], pred[f])]
    /\ recall' = [recall EXCEPT ![f] = Recall(matched_count[f], gt[f])]
    /\ executed' = [executed EXCEPT ![f] = @ \cup {"division"}]
    /\ pc' = [pc EXCEPT ![f] = "f1"]
    /\ UNCHANGED <<margin, y_true, y_pred, gt, pred, matched_count, pred_index,
                   gt_iter, ret>>

ReturnZero(f) ==
    /\ pc[f] = "f1"
    /\ RAdd(precision[f], recall[f]) = Zero
    /\ ReturnValue(f, Zero)
    /\ UNCHANGED <<margin, y_true, y_pred, gt, pred, matched_count, pred_index,
                   gt_iter, precision, recall, executed>>

ReturnF1(f) ==
    /\ pc[f] = "f1"
    /\ RAdd(precision[f], recall[f]) # Zero
    /\ ReturnValue(f, F1Formula(precision[f], recall[f]))
    /\ UNCHANGED <<margin, y_true, y_pred, gt, pred, matched_count, pred_index,
                   gt_iter, precision, recall, executed>>

\* the frame is gone and the caller lets go of its arguments and the result
Return(f) ==
    /\ pc[f] = "done"
    /\ pc' = [pc EXCEPT ![f] = "idle"]
    /\ y_true' = [y_true EXCEPT ![f] = <<>>]
    /\ y_pred' = [y_pred EXCEPT ![f] = <<>>]
    /\ gt' = [gt EXCEPT ![f] = <<>>]
    /\ pred' = [pred EXCEPT ![f] = <<>>]
    /\ matched_count' = [matched_count EXCEPT ![f] = 0]
    /\ pred_index' = [pred_index EXCEPT ![f] = 0]
    /\ gt_iter' = [gt_iter EXCEPT ![f] = 0]
    /\ precision' = [precision EXCEPT ![f] = None]
    /\ recall' = [recall EXCEPT ![f] = None]
    /\ ret' = [ret EXCEPT ![f] = None]
    /\ executed' = [executed EXCEPT ![f] = {}]
    /\ UNCHANGED margin

Next ==
    \/ \E f \in Frames : Call(f)
    \/ \E f \in Frames : Sort(f)
    \/ \E f \in Frames : EdgeBothEmpty(f)
    \/ \E f \in Frames : EdgeGtEmpty(f)
    \/ \E f \in Frames : EdgePredEmpty(f)
    \/ \E f \in Frames : InitSweep(f)
    \/ \E f \in Frames : ForNext(f)
    \/ \E f \in Frames : ForExit(f)
    \/ \E f \in Frames : WhileAdvance(f)
    \/ \E f \in Frames : WhileExit(f)
    \/ \E f \in Frames : IfMatch(f)
    \/ \E f \in Frames : IfNoMatch(f)
    \/ \E f \in Frames : ComputePR(f)
    \/ \E f \in Frames : ReturnZero(f)
    \/ \E f \in Frames : ReturnF1(f)
    \/ \E f \in Frames : Return(f)

Spec == Init /\ [][Next]_vars
SpecConc == InitConc /\ [][Next]_vars


(***************************************************************************)
(* Properties                                                              *)
(***************************************************************************)
Min(a, b) == IF a <= b THEN a ELSE b

NonEmptyCall(f) == y_true[f] # <<>> /\ y_pred[f] # <<>>

\* the ground-truth elements that have some prediction strictly within the margin
Detected(g, p, m) ==
    {k \in 1..Len(g) : \E j \in 1..Len(p) : Abs(p[j] - g[k]) < m}

\* all orderings of the sequence s
Orderings(s) ==
    {[k \in 1..Len(s) |-> s[q[k]]] :
        q \in {r \in [1..Len(s) -> 1..Len(s)] : \A a, b \in 1..Len(s) : r[a] = r[b] => a = b}}

Scaled(s, k) == [j \in 1..Len(s) |-> k * s[j]]

\* C1: the value returned by _evaluate lies in [0.0, 1.0], for all inputs
\* and every margin >= 0.
C1_ScoreInUnitInterval ==
    \A f \in Frames :
        pc[f] = "done" => RLeq(Zero, ret[f]) /\ RLeq(ret[f], One)

\* C2: at the end of the sweep, 0 <= matched_count <= min(len(gt), len(pred)).
C2_MatchedCountBounded ==
    \A f \in Frames :
        pc[f] = "prf" =>
            /\ 0 <= matched_count[f]
            /\ matched_count[f] <= Min(Len(gt[f]), Len(pred[f]))

\* C3: a ground-truth breakpoint is counted exactly when some prediction is
\* strictly within the margin of it, so recall is the fraction of such
\* ground-truth breakpoints.
C3_RecallIsFractionDetected ==
    \A f \in Frames :
        /\ pc[f] = "prf" =>
              matched_count[f] = Cardinality(Detected(gt[f], pred[f], margin))
        /\ pc[f] = "f1" =>
              recall[f] = Quot(Cardinality(Detected(gt[f], pred[f], margin)), Len(gt[f]))

\* C4: for fixed inputs the score and matched_count never decrease when the
\* margin grows.
C4_MonotoneInMargin ==
    \A f \in Frames :
        pc[f] = "done" =>
            \A m2 \in Margins :
                m2 >= margin =>
                    /\ RLeq(ret[f], Evaluate(y_true[f], y_pred[f], m2))
                    /\ NonEmptyCall(f) =>
                          matched_count[f] <= MatchedCount(y_true[f], y_pred[f], m2)

\* C5: both inputs empty gives 1.0, exactly one empty gives 0.0, and in
\* neither case does the call run the sweep or a division.
C5_EmptyInputPolicy ==
    \A f \in Frames :
        /\ pc[f] = "done" /\ y_true[f] = <<>> /\ y_pred[f] = <<>> => ret[f] = One
        /\ pc[f] = "done" /\ (y_true[f] = <<>>) # (y_pred[f] = <<>>) => ret[f] = Zero
        /\ pc[f] # "idle" /\ ~NonEmptyCall(f) =>
              /\ executed[f] = {}
              /\ pc[f] \in {"sort", "edge", "done"}

C5_Witness ==
    \E f \in Frames :
        /\ pc[f] = "done"
        /\ y_true[f] = <<>>
        /\ y_pred[f] # <<>>
        /\ ret[f] = Zero
        /\ executed[f] = {}

\* C6: for non-empty inputs precision = matched_count/len(pred), recall =
\* matched_count/len(gt), the score is 2*matched_count/(len(gt)+len(pred)),
\* which is 0.0 when nothing matched; gt=[5], pred=[4.9, 5.9], margin=1.0
\* gives matched_count 1 and score 2/3.
C6_F1Value ==
    \A f \in Frames :
        /\ pc[f] \in {"f1", "done"} /\ NonEmptyCall(f) =>
              /\ precision[f] = Quot(matched_count[f], Len(y_pred[f]))
              /\ recall[f] = Quot(matched_count[f], Len(y_true[f]))
        /\ pc[f] = "done" /\ NonEmptyCall(f) =>
              /\ ret[f] = Quot(2 * matched_count[f], Len(y_true[f]) + Len(y_pred[f]))
              /\ matched_count[f] = 0 => ret[f] = Zero
        /\ (/\ pc[f] = "done"
            /\ y_true[f] = <<50>>
            /\ y_pred[f] = <<49, 59>>
            /\ margin = DefaultMargin) =>
              matched_count[f] = 1 /\ ret[f] = <<2, 3>>

C6_Witness ==
    \E f \in Frames :
        /\ pc[f] = "done"
        /\ y_true[f] = <<50>>
        /\ y_pred[f] = <<49, 59>>
        /\ margin = DefaultMargin
        /\ ret[f] = <<2, 3>>

\* C7: the score is the same for every permutation of the ground truth and
\* every permutation of the predictions.
C7_OrderInvariant ==
    \A f \in Frames :
        pc[f] = "done" =>
            \A yt \in Orderings(y_true[f]) :
                \A yp \in Orderings(y_pred[f]) :
                    Evaluate(yt, yp, margin) = ret[f]

C7_Witness ==
    \E f \in Frames :
        /\ pc[f] = "done"
        /\ y_true[f] # sorted(y_true[f])
        /\ y_pred[f] # sorted(y_pred[f])
        /\ matched_count[f] > 0
        /\ matched_count[f] < Len(y_true[f])

C9_PureEvaluation ==
    /\ [](\A f \in Frames :
              pc[f] = "done" => ret[f] = Evaluate(y_true[f], y_pred[f], margin))
    /\ [][/\ margin' = margin
          /\ \A f \in Frames :
                pc[f] # "idle" /\ pc'[f] # "idle" =>
                    y_true'[f] = y_true[f] /\ y_pred'[f] = y_pred[f]
          /\ \E f \in Frames :
                \A g \in Frames \ {f} :
                    /\ pc'[g] = pc[g] /\ ret'[g] = ret[g]
                    /\ y_true'[g] = y_true[g] /\ y_pred'[g] = y_pred[g]
                    /\ gt'[g] = gt[g] /\ pred'[g] = pred[g]
                    /\ matched_count'[g] = matched_count[g]
                    /\ pred_index'[g] = pred_index[g]
                    /\ gt_iter'[g] = gt_iter[g]
                    /\ precision'[g] = precision[g] /\ recall'[g] = recall[g]]_vars

C9_Witness ==
    /\ Cardinality(Frames) = 2
    /\ \A f \in Frames :
          /\ pc[f] = "done"
          /\ y_true[f] = <<1, 0>>
          /\ y_pred[f] = <<1, 0>>
          /\ ret[f] = Evaluate(<<1, 0>>, <<1, 0>>, margin)
    /\ margin > 0

\* C10: the score is not symmetric: y_true=[0, 0], y_pred=[0] with margin
\* 0.1 does not score as y_true=[0], y_pred=[0, 0] does.
C10_NotSymmetric ==
    \A f \in Frames :
        (/\ pc[f] = "done"
         /\ y_true[f] = <<0, 0>>
         /\ y_pred[f] = <<0>>
         /\ margin = 1) =>
            ret[f] # Evaluate(y_pred[f], y_true[f], margin)

C10_Witness ==
    \E f \in Frames :
        /\ pc[f] = "done"
        /\ y_true[f] = <<0, 0>>
        /\ y_pred[f] = <<0>>
        /\ margin = 1
        /\ ret[f] = <<4, 3>>
        /\ Evaluate(y_pred[f], y_true[f], margin) = <<2, 3>>

\* the states of the sweep
InSweep(f) == pc[f] \in {"for", "while", "if", "prf"}

\* what is left of the sweep: it decreases with every step of the sweep
SweepMeasure(c, k, i, g, p) ==
    3 * (Len(g) - k) + (Len(p) - i)
        + (CASE c = "for" -> 1 [] c = "if" -> 2 [] c = "while" -> 3 [] OTHER -> 0)

\* C11: during the sweep pred_index stays within 0..len(pred) and never
\* decreases; it changes only by one step of the 'predicted < t - margin'
\* rule and never by a match; every step of the sweep decreases a measure
\* that is bounded below, so the sweep terminates after at most len(pred)
\* advances; and every prediction the cursor has passed is not within the
\* margin of the current ground-truth value or of any later one.
C11_CursorInvariant ==
    /\ [](\A f \in Frames :
              InSweep(f) =>
                  /\ pred_index[f] \in 0..Len(pred[f])
                  /\ SweepMeasure(pc[f], gt_iter[f], pred_index[f], gt[f], pred[f]) >= 0
                  /\ \A j \in 1..pred_index[f] :
                        \A k \in gt_iter[f]..Len(gt[f]) :
                            k >= 1 => ~(Abs(pred[f][j] - gt[f][k]) < margin))
    /\ [][\A f \in Frames :
              InSweep(f) /\ InSweep(f)' =>
                  /\ pred_index'[f] >= pred_index[f]
                  /\ pred_index'[f] # pred_index[f] =>
                        /\ pc[f] = "while"
                        /\ pc'[f] = "while"
                        /\ pred_index'[f] = pred_index[f] + 1
                        /\ pred[f][pred_index[f] + 1] < gt[f][gt_iter[f]] - margin
                  /\ matched_count'[f] # matched_count[f] => pred_index'[f] = pred_index[f]
                  /\ <<pc[f], gt_iter[f], pred_index[f]>> # <<pc'[f], gt_iter'[f], pred_index'[f]>> =>
                        SweepMeasure(pc'[f], gt_iter'[f], pred_index'[f], gt'[f], pred'[f])
                            < SweepMeasure(pc[f], gt_iter[f], pred_index[f], gt[f], pred[f])]_vars

C11_Witness ==
    \E f \in Frames :
        /\ pc[f] = "if"
        /\ margin > 0
        /\ pred_index[f] = 1
        /\ Len(pred[f]) = 2
        /\ gt_iter[f] = 2
        /\ matched_count[f] = 1
        /\ IfCond(pred[f], pred_index[f], true_bkpt(f), margin)

\* C12: a ground-truth value is counted only if some prediction is strictly
\* within the margin of it; so when every (prediction, ground-truth) pair is
\* at distance >= margin (exactly at the margin included, and every pair
\* when margin = 0) matched_count is 0 and the score is 0.0.
C12_NoFalseMatch ==
    /\ [](\A f \in Frames :
              /\ InSweep(f) =>
                    matched_count[f] <= Cardinality(Detected(gt[f], pred[f], margin))
              /\ (/\ pc[f] \in {"prf", "f1", "done"}
                  /\ NonEmptyCall(f)
                  /\ Detected(gt[f], pred[f], margin) = {}) =>
                    /\ matched_count[f] = 0
                    /\ pc[f] = "done" => ret[f] = Zero
              /\ (/\ pc[f] = "done"
                  /\ y_true[f] = <<50>>
                  /\ y_pred[f] = <<100>>
                  /\ margin = DefaultMargin) =>
                    matched_count[f] = 0 /\ ret[f] = Zero)
    /\ [][\A f \in Frames :
              InSweep(f) /\ matched_count'[f] > matched_count[f] =>
                  /\ matched_count'[f] = matched_count[f] + 1
                  /\ gt_iter[f] \in Detected(gt[f], pred[f], margin)]_vars

C12_Witness ==
    \E f \in Frames :
        /\ pc[f] = "done"
        /\ NonEmptyCall(f)
        /\ margin > 0
        /\ \E j \in 1..Len(pred[f]) :
              \E k \in 1..Len(gt[f]) : Abs(pred[f][j] - gt[f][k]) = margin
        /\ Detected(gt[f], pred[f], margin) = {}
        /\ matched_count[f] = 0
        /\ ret[f] = Zero

\* C13: for a non-empty ground truth and margin > 0, predictions with exactly
\* the values of the ground truth match every ground-truth breakpoint and
\* the score is 1.0.
C13_PerfectPredictions ==
    \A f \in Frames :
        (/\ pc[f] = "done"
         /\ y_true[f] # <<>>
         /\ margin > 0
         /\ sorted(y_pred[f]) = sorted(y_true[f])) =>
            /\ matched_count[f] = Len(gt[f])
            /\ ret[f] = One

=============================================================================
